---- MODULE Spec2Model ----
(***************************************************************************)
(* OFAC party lookup / search service.                                     *)
(*   src/ofac_api.py      REST layer (Flask) over a read-only SQLite file  *)
(*   src/ofac_mcp_sse.py  tool layer that proxies to the REST layer        *)
(*   src/main.py          FastAPI endpoint over the same SQLite file       *)
(*                                                                         *)
(* Text is a tuple of one-character strings, so that lower(), strip(),     *)
(* LIKE and the BINARY collation of ORDER BY are computed, not assumed.    *)
(* SQL NULL / Python None is the one-element tuple NULL.                   *)
(***************************************************************************)
EXTENDS Integers, Sequences, FiniteSets, TLC

VARIABLES
    db,         \* contents of the tables of ofac_demo.db (never written)
    dbExists,   \* DB_FILE.exists()
    pc,         \* position of the request, invocation or function call
    req,        \* the request / tool invocation being served
    resp,       \* the REST response produced for req
    calls,      \* outbound HTTP calls made by the current tool invocation
    envelope,   \* value returned by the tool
    conn        \* the sqlite3 connection of the function call that is being
                \* stepped through: "none" | "open" | "closed"

vars == <<db, dbExists, pc, req, resp, calls, envelope, conn>>

(***************************************************************************)
(* Bounds of the model.                                                    *)
(***************************************************************************)
MaxListLinks == 2       \* list links of party 1: 0..MaxListLinks
MaxPrograms  == 2       \* program links of party 1: 0..MaxPrograms
MaxAddresses == 2       \* address rows of party 1: 0..MaxAddresses

(***************************************************************************)
(* Text.                                                                   *)
(***************************************************************************)
NULL == <<"NULL">>
None == NULL

\* U+00B2 SUPERSCRIPT TWO: str.isdigit() is True for it, int() rejects it.
SUP2 == "U+00B2"

UpperChars == <<"A","B","C","D","E","F","G","H","I","J","K","L","M",
                "N","O","P","Q","R","S","T","U","V","W","X","Y","Z">>
LowerChars == <<"a","b","c","d","e","f","g","h","i","j","k","l","m",
                "n","o","p","q","r","s","t","u","v","w","x","y","z">>
DecimalChars == <<"0","1","2","3","4","5","6","7","8","9">>

\* Characters of the model in code point order (BINARY collation).
AsciiOrder == <<" ", "%", "-", ".">> \o DecimalChars \o <<";">> \o UpperChars
              \o <<"_">> \o LowerChars \o <<SUP2>>

CharCodes ==
    [c \in {AsciiOrder[i] : i \in 1..Len(AsciiOrder)} |->
        CHOOSE i \in 1..Len(AsciiOrder) : AsciiOrder[i] = c]

CharCode(c) == CharCodes[c]

\* str.lower() on each character of the model
LowerOf ==
    [c \in {AsciiOrder[i] : i \in 1..Len(AsciiOrder)} |->
        IF \E i \in 1..Len(UpperChars) : UpperChars[i] = c
        THEN LowerChars[CHOOSE i \in 1..Len(UpperChars) : UpperChars[i] = c]
        ELSE c]

\* str.lower() on one character
LowerChar(c) == LowerOf[c]

\* str.lower()
Lower(s) == [i \in 1..Len(s) |-> LowerChar(s[i])]

RECURSIVE LStrip(_)
LStrip(s) == IF s # <<>> /\ s[1] = " " THEN LStrip(Tail(s)) ELSE s

RECURSIVE RStrip(_)
RStrip(s) ==
    IF s # <<>> /\ s[Len(s)] = " " THEN RStrip(SubSeq(s, 1, Len(s) - 1)) ELSE s

\* str.strip()
Strip(s) == RStrip(LStrip(s))

\* SQL REPLACE(s, ch, '')
RECURSIVE RemoveChar(_, _)
RemoveChar(s, ch) ==
    IF s = <<>> THEN <<>>
    ELSE IF s[1] = ch THEN RemoveChar(Tail(s), ch)
    ELSE <<s[1]>> \o RemoveChar(Tail(s), ch)

\* a < b in the BINARY collation (memcmp order)
RECURSIVE TextLess(_, _)
TextLess(a, b) ==
    IF b = <<>> THEN FALSE
    ELSE IF a = <<>> THEN TRUE
    ELSE IF a[1] # b[1] THEN CharCode(a[1]) < CharCode(b[1])
    ELSE TextLess(Tail(a), Tail(b))

\* SQLite LIKE without ESCAPE: '%' any run, '_' any one character,
\* other characters compared without regard to ASCII case.
RECURSIVE LikeMatch(_, _)
LikeMatch(pat, txt) ==
    IF pat = <<>> THEN txt = <<>>
    ELSE IF pat[1] = "%"
         THEN \/ LikeMatch(Tail(pat), txt)
              \/ txt # <<>> /\ LikeMatch(pat, Tail(txt))
    ELSE IF pat[1] = "_"
         THEN txt # <<>> /\ LikeMatch(Tail(pat), Tail(txt))
    ELSE /\ txt # <<>>
         /\ LowerChar(pat[1]) = LowerChar(txt[1])
         /\ LikeMatch(Tail(pat), Tail(txt))

\* q occurs in txt as a literal substring, case-insensitively
Contains(txt, q) ==
    \E i \in 1..(Len(txt) - Len(q) + 1) :
        Lower(SubSeq(txt, i, i + Len(q) - 1)) = Lower(q)

\* the elements of a finite set S as a sequence, by ascending rank
\* (rank is a function on S); each element is inserted after the elements
\* of smaller rank
RECURSIVE SeqByRank(_, _)
SeqByRank(S, rank) ==
    IF S = {} THEN <<>>
    ELSE LET x    == CHOOSE y \in S : TRUE
             rest == SeqByRank(S \ {x}, rank)
             rx   == rank[x]
             k    == Cardinality({i \in 1..Len(rest) : rank[rest[i]] < rx})
         IN  SubSeq(rest, 1, k) \o <<x>> \o SubSeq(rest, k + 1, Len(rest))

Range(s) == {s[i] : i \in 1..Len(s)}

Max(a, b) == IF a >= b THEN a ELSE b
Min(a, b) == IF a <= b THEN a ELSE b

(***************************************************************************)
(* The dataset.  The tables are read, never written; their contents are    *)
(* drawn at Init.  Party 1 varies in every table the queries join; party 2 *)
(* has one row in each and varies in its canonical name.                   *)
(***************************************************************************)
FORMAL   == <<"F","O","R","M","A","L">>
AKA_DOTS == <<"A",".","K",".","A",".">>
T_aka    == <<"a","k","a">>
T_Entity == <<"E","n","t","i","t","y">>
T_Website == <<"W","e","b","s","i","t","e">>
T_AddInfo == <<"A","d","d","i","t","i","o","n","a","l"," ","S","a","n","c","t","i","o","n","s"," ","I","n","f","o","r","m","a","t","i","o","n"," ","-">>
T_DOB    == <<"D","O","B">>
T_US     == <<"U","S">>
T_Usa    == <<"U","s","a">>
T_sep    == <<";", " ">>

Digit(i) == DecimalChars[i + 1]

ListCd(i)    == <<"L", Digit(i)>>
ListValue(i) == <<"S", "D", "N", Digit(i)>>
ProgCd(i)    == <<"P", Digit(i)>>
ProgValue(i) == <<"P", "G", Digit(i)>>

CodeMaster ==
    {[code_id |-> ListCd(i), code_value |-> ListValue(i)] : i \in 1..MaxListLinks}
    \cup {[code_id |-> ProgCd(i), code_value |-> ProgValue(i)] : i \in 1..MaxPrograms}
    \cup {[code_id |-> T_US, code_value |-> T_Usa]}

\* address row i of a party: only the first carries a country code
AddressRow(p, i) ==
    [party_id |-> p,
     address_line |-> <<"a", "b">>,
     city |-> IF i = 1 THEN <<"X">> ELSE <<"Y", Digit(i)>>,
     postal_code |-> <<Digit(i)>>,
     country_cd |-> IF i = 1 THEN T_US ELSE NULL]

Party2Names == {<<"A", "B">>, <<"a", "b">>, <<"x", "y">>}

\* c1: party 1 has its canonical name row; a1: party 1 has an alias row;
\* nl, np, na: list links, program links, address rows of party 1;
\* n2: canonical name of party 2
Dataset(c1, a1, nl, np, na, n2) ==
    [party |->
        {[party_id |-> 1, party_type_cd |-> T_Entity, remarks |-> NULL],
         [party_id |-> 2, party_type_cd |-> T_Entity, remarks |-> <<"r">>]},
     name |->
        {[party_id |-> 1, name_text |-> <<"a", "b", "d">>,
          name_type_cd |-> FORMAL, is_primary_flg |-> 0],
         [party_id |-> 2, name_text |-> n2,
          name_type_cd |-> FORMAL, is_primary_flg |-> 1]}
        \cup (IF c1 THEN {[party_id |-> 1, name_text |-> <<"a", "b">>,
                           name_type_cd |-> FORMAL, is_primary_flg |-> 1]}
                    ELSE {})
        \cup (IF a1 THEN {[party_id |-> 1, name_text |-> <<"A", "b", "c">>,
                           name_type_cd |-> AKA_DOTS, is_primary_flg |-> 0]}
                    ELSE {}),
     list_link |->
        {[party_id |-> 1, list_cd |-> ListCd(i)] : i \in 1..nl}
        \cup {[party_id |-> 2, list_cd |-> ListCd(1)]},
     program_link |->
        {[party_id |-> 1, program_cd |-> ProgCd(i)] : i \in 1..np}
        \cup {[party_id |-> 2, program_cd |-> ProgCd(1)]},
     attribute |->
        {[party_id |-> 1, attribute_type_cd |-> T_Website, attribute_value |-> <<"w">>],
         [party_id |-> 1, attribute_type_cd |-> T_AddInfo, attribute_value |-> <<"i">>],
         [party_id |-> 1, attribute_type_cd |-> T_DOB, attribute_value |-> <<"1">>]},
     address |->
        {AddressRow(1, i) : i \in 1..na} \cup {AddressRow(2, 1)},
     code_master |-> CodeMaster]

Datasets ==
    {Dataset(c1, a1, nl, np, na, n2) :
        c1 \in BOOLEAN, a1 \in BOOLEAN, nl \in 0..MaxListLinks,
        np \in 0..MaxPrograms, na \in 0..MaxAddresses, n2 \in Party2Names}

(***************************************************************************)
(* Python int and the SQLite INTEGER it is bound to.  A Python int is of   *)
(* arbitrary size: it is kept as its decimal digits, no leading zero.      *)
(***************************************************************************)
Int64MaxDigits == <<"9","2","2","3","3","7","2","0","3","6","8","5","4","7","7","5","8","0","7">>

RECURSIVE StripZeros(_)
StripZeros(s) == IF Len(s) > 1 /\ s[1] = "0" THEN StripZeros(Tail(s)) ELSE s

RECURSIVE NatDigits(_)
NatDigits(n) == IF n < 10 THEN <<Digit(n)>> ELSE NatDigits(n \div 10) \o <<Digit(n % 10)>>

IsDecimalChar(c) == c \in Range(DecimalChars)

\* str.isdigit(): non-empty, every character a digit (decimal or not)
IsDigit(s) == s # <<>> /\ \A i \in 1..Len(s) : IsDecimalChar(s[i]) \/ s[i] = SUP2

\* int(s) succeeds on a string of decimal digits; this is all ofac_party gives it
IntParses(s) == s # <<>> /\ \A i \in 1..Len(s) : IsDecimalChar(s[i])
PyInt(s) == StripZeros(s)

\* sqlite3 binds a Python int only if it fits a signed 64-bit INTEGER
FitsSqliteInteger(n) ==
    \/ Len(n) < Len(Int64MaxDigits)
    \/ Len(n) = Len(Int64MaxDigits) /\ ~TextLess(Int64MaxDigits, n)

(***************************************************************************)
(* get_party_data (src/ofac_api.py 59-121)                                 *)
(***************************************************************************)
\* p.party_id = ?  with the Python int bound to the parameter
PartyIdEq(k, pid) == NatDigits(k) = pid

\* n.is_primary_flg = 1 AND n.name_type_cd = 'FORMAL'
IsCanonical(n) == n.is_primary_flg = 1 /\ n.name_type_cd = FORMAL

\* REPLACE(LOWER(name_type_cd),'.','') = 'aka'
IsAka(n) == RemoveChar(Lower(n.name_type_cd), ".") = T_aka

\* LEFT JOIN ofac_party_program_link pl LEFT JOIN ofac_code_master cm_prog:
\* the (program_cd, code_value) pairs joined to party k, one all-NULL pair
\* when the party has no program link
ProgramSide(d, k) ==
    LET links == {pl \in d.program_link : pl.party_id = k}
        cms(pl) == {cm \in d.code_master : cm.code_id = pl.program_cd}
    IN  IF links = {} THEN {[program_cd |-> NULL, code_value |-> NULL]}
        ELSE UNION {IF cms(pl) = {}
                    THEN {[program_cd |-> pl.program_cd, code_value |-> NULL]}
                    ELSE {[program_cd |-> pl.program_cd, code_value |-> cm.code_value]
                            : cm \in cms(pl)}
                    : pl \in links}

\* COALESCE(x, '')
Coalesce(x) == IF x = NULL THEN <<>> ELSE x

\* number of texts of S that sort before t
TextRank(S, t) == Cardinality({u \in S : TextLess(u, t)})

\* GROUP_CONCAT(X, '; ') over the values in row order: NULLs are skipped,
\* and the result is NULL when no value is left
RECURSIVE JoinText(_)
JoinText(vals) ==
    IF Len(vals) = 1 THEN vals[1] ELSE vals[1] \o T_sep \o JoinText(Tail(vals))

GroupConcat(vals) ==
    LET kept == SelectSeq(vals, LAMBDA v : v # NULL)
    IN  IF kept = <<>> THEN NULL ELSE JoinText(kept)

\* the rows of the details query before GROUP BY: party x canonical name x
\* list link x list code, LEFT JOIN program link and program code
DetailsJoin(d, pid) ==
    UNION {UNION {UNION {UNION {
        {[Type |-> p.party_type_cd, EntityName |-> n.name_text,
          list_cd |-> ll.list_cd, List |-> cm.code_value,
          program_cd |-> pr.program_cd, prog_value |-> pr.code_value,
          remarks |-> p.remarks] : pr \in ProgramSide(d, p.party_id)}
        : cm \in {c \in d.code_master : c.code_id = ll.list_cd}}
        : ll \in {l \in d.list_link : l.party_id = p.party_id}}
        : n \in {m \in d.name : m.party_id = p.party_id /\ IsCanonical(m)}}
        : p \in {q \in d.party : PartyIdEq(q.party_id, pid)}}

\* the rows of a join in the order the nested loops visit them:
\* list links outermost, program links inside (each in key order)
JoinOrder(rows) ==
    LET lists == {r.list_cd : r \in rows}
        progs == {r.program_cd : r \in rows}
        rank  == [r \in rows |->
                    TextRank(lists, r.list_cd) * (Cardinality(progs) + 1)
                    + TextRank(progs, r.program_cd)]
    IN  SeqByRank(rows, rank)

\* GROUP BY p.party_id: one row if the join is not empty.  The columns that
\* are neither grouped nor aggregated come from one row of the group, which
\* SQLite does not specify: bare is that row.
DetailsDf(d, pid, bare) ==
    LET rows == JoinOrder(DetailsJoin(d, pid))
    IN  IF rows = <<>> THEN <<>>
        ELSE <<[Type |-> bare.Type,
                EntityName |-> bare.EntityName,
                List |-> bare.List,
                Program |-> GroupConcat([i \in 1..Len(rows) |-> rows[i].prog_value]),
                Remarks |-> Coalesce(bare.remarks)]>>

\* the rows SQLite may take the bare columns from
BareRows(d, pid) == IF DetailsJoin(d, pid) = {} THEN {NULL} ELSE DetailsJoin(d, pid)

\* a set of records as a sequence ordered by two text columns;
\* keys[r] is the pair of column values of row r
SortByTwo(S, keys) ==
    LET A == {keys[r][1] : r \in S}
        B == {keys[r][2] : r \in S}
    IN  SeqByRank(S, [r \in S |->
            TextRank(A, keys[r][1]) * (Cardinality(B) + 1) + TextRank(B, keys[r][2])])

IdentDf(d, pid) ==
    LET rows == {[Type |-> a.attribute_type_cd, Info |-> a.attribute_value]
                  : a \in {x \in d.attribute :
                              /\ PartyIdEq(x.party_id, pid)
                              /\ x.attribute_type_cd \in {T_Website, T_AddInfo}}}
    IN  SortByTwo(rows, [r \in rows |-> <<r.Type, r.Info>>])

AliasDf(d, pid) ==
    LET rows == {[Type |-> <<"a", ".", "k", ".", "a", ".">>,
                  Category |-> <<"w", "e", "a", "k">>,
                  Name |-> n.name_text]
                  : n \in {x \in d.name : PartyIdEq(x.party_id, pid) /\ IsAka(x)}}
    IN  SortByTwo(rows, [r \in rows |-> <<r.Name, r.Name>>])

\* no ORDER BY: the rows are given in table order (postal_code is the row key here)
AddrDf(d, pid) ==
    LET rows == UNION {
                LET cms == {c \in d.code_master : c.code_id = ad.country_cd}
                    row(cv) == [Address |-> ad.address_line, City |-> ad.city,
                                State |-> <<>>, PostalCode |-> ad.postal_code,
                                Country |-> cv]
                IN  IF cms = {} THEN {row(NULL)} ELSE {row(c.code_value) : c \in cms}
                : ad \in {x \in d.address : PartyIdEq(x.party_id, pid)}}
    IN  SortByTwo(rows, [r \in rows |-> <<r.PostalCode, r.PostalCode>>])

\* kind "error": the {"error": ...} dict; "raise": an exception leaves the
\* function; "none": None; "detail": the record
get_party_data(d, exists, party_id, bare) ==
    IF ~exists THEN [kind |-> "error"]
    ELSE IF ~FitsSqliteInteger(party_id) THEN [kind |-> "raise"]
    ELSE IF DetailsDf(d, party_id, bare) = <<>> THEN [kind |-> "none"]
    ELSE [kind |-> "detail",
          details |-> DetailsDf(d, party_id, bare)[1],
          identifications |-> IdentDf(d, party_id),
          aliases |-> AliasDf(d, party_id),
          addresses |-> AddrDf(d, party_id)]

(***************************************************************************)
(* GET /ofacParty (src/ofac_api.py 229-245)                                *)
(***************************************************************************)
\* what Flask answers when the view raises: 500 with an HTML body
UnhandledError == [status |-> 500, body |-> "html"]

Envelope(st, ok, pl) == [status |-> st, body |-> "json", resultCd |-> ok, payload |-> pl]

ofac_party(d, exists, party_id_param, bare) ==
    IF party_id_param = None \/ party_id_param = <<>> \/ ~IsDigit(party_id_param)
    THEN Envelope(400, FALSE, [message |-> "partyId must be numeric"])
    ELSE IF ~IntParses(party_id_param) THEN UnhandledError
    ELSE LET party_id == PyInt(party_id_param)
             result   == get_party_data(d, exists, party_id, bare)
         IN  CASE result.kind = "raise"  -> UnhandledError
               [] result.kind = "error"  -> Envelope(500, FALSE, [message |-> "db file missing"])
               [] result.kind = "none"   -> Envelope(404, FALSE, [message |-> "not found"])
               [] OTHER                  -> Envelope(200, TRUE, [data |-> result])

PartyIdParams ==
    {None, <<>>, <<"x">>, <<"-", "1">>, <<"1", " ">>,
     <<"1">>, <<"2">>, <<"3">>, <<"0", "1">>, <<"1", "2">>,
     <<SUP2>>, Int64MaxDigits,
     SubSeq(Int64MaxDigits, 1, Len(Int64MaxDigits) - 1) \o <<"8">>}

(***************************************************************************)
(* search_party_advanced (src/ofac_api.py 127-223)                         *)
(***************************************************************************)
S_all     == <<"a","l","l">>
S_name    == <<"n","a","m","e">>
S_alias   == <<"a","l","i","a","s">>
S_address == <<"a","d","d","r","e","s","s">>

ALLOWED_SCOPES == {S_all, S_name, S_alias, S_address}

LimitFloor == 1
LimitCeiling == 1000
DefaultLimit == 100

\* limit = max(1, min(limit, 1000))
ClampLimit(limit) == Max(LimitFloor, Min(limit, LimitCeiling))

\* conn.create_function("lower", 1, lambda s: s.lower() if s else None)
LowerUdf(s) == IF s = NULL \/ s = <<>> THEN NULL ELSE Lower(s)

\* a = b in SQL: not true when either side is NULL
SqlEq(a, b) == a # NULL /\ b # NULL /\ a = b

\* WITH union_search AS (name UNION ALL alias UNION ALL address);
\* s_key identifies the source row, so that UNION ALL keeps duplicates
UnionSearch(d) ==
    {[party_id |-> n.party_id, match_field |-> S_name, match_value |-> n.name_text,
      s_key |-> <<"n">> \o n.name_type_cd \o n.name_text]
        : n \in {x \in d.name : IsCanonical(x)}}
    \cup
    {[party_id |-> n.party_id, match_field |-> S_alias, match_value |-> n.name_text,
      s_key |-> <<"o">> \o n.name_type_cd \o n.name_text]
        : n \in {x \in d.name : IsAka(x)}}
    \cup
    {[party_id |-> ad.party_id, match_field |-> S_address,
      match_value |-> Coalesce(ad.address_line) \o <<" ">> \o Coalesce(ad.city)
                      \o <<" ">> \o Coalesce(ad.country_cd),
      s_key |-> <<"p">> \o ad.postal_code]
        : ad \in d.address}

\* LEFT JOIN ofac_party_address ad LEFT JOIN ofac_code_master cm_country
AddressSide(d, k) ==
    LET ads == {ad \in d.address : ad.party_id = k}
        cms(ad) == {cm \in d.code_master : cm.code_id = ad.country_cd}
        row(ad, cv) == [ad_key |-> ad.postal_code, ad_country_cd |-> ad.country_cd,
                        ad_city |-> ad.city, country_value |-> cv]
    IN  IF ads = {}
        THEN {[ad_key |-> NULL, ad_country_cd |-> NULL, ad_city |-> NULL,
               country_value |-> NULL]}
        ELSE UNION {IF cms(ad) = {} THEN {row(ad, NULL)}
                    ELSE {row(ad, cm.code_value) : cm \in cms(ad)}
                    : ad \in ads}

\* FROM union_search s JOIN party p JOIN name pn JOIN list_link ll
\* JOIN code_master cm_list LEFT JOIN program ... LEFT JOIN address ...
SearchJoin(d) ==
    UNION {UNION {UNION {UNION {UNION {UNION {
        {[party_id |-> p.party_id, EntityName |-> pn.name_text,
          Type |-> p.party_type_cd, List |-> cm.code_value,
          matchField |-> s.match_field, matchValue |-> s.match_value,
          s_key |-> s.s_key, list_cd |-> ll.list_cd,
          program_cd |-> pr.program_cd, prog_value |-> pr.code_value,
          ad_key |-> ad.ad_key, ad_country_cd |-> ad.ad_country_cd,
          ad_city |-> ad.ad_city, country_value |-> ad.country_value]
            : ad \in AddressSide(d, p.party_id)}
        : pr \in ProgramSide(d, p.party_id)}
        : cm \in {c \in d.code_master : c.code_id = ll.list_cd}}
        : ll \in {l \in d.list_link : l.party_id = p.party_id}}
        : pn \in {m \in d.name : m.party_id = p.party_id /\ IsCanonical(m)}}
        : p \in {x \in d.party : x.party_id = s.party_id}}
        : s \in UnionSearch(d)}

\* SearchWhere without the "s.match_field = ?" clause
SearchWhere_NoScopeClause(r, pattern, scope, country, city) ==
    /\ LowerUdf(r.matchValue) # NULL
    /\ LikeMatch(LowerUdf(pattern), LowerUdf(r.matchValue))
    /\ (country # None /\ country # <<>>) =>
          \/ SqlEq(LowerUdf(r.ad_country_cd), LowerUdf(country))
          \/ SqlEq(LowerUdf(r.country_value), LowerUdf(country))
    /\ (city # None /\ city # <<>>) => SqlEq(LowerUdf(r.ad_city), LowerUdf(city))

\* the WHERE clause assembled from the optional filters (a falsy country
\* or city adds no clause)
SearchWhere(r, pattern, scope, country, city) ==
    /\ LowerUdf(r.matchValue) # NULL
    /\ LikeMatch(LowerUdf(pattern), LowerUdf(r.matchValue))
    /\ scope # S_all => r.matchField = scope
    /\ (country # None /\ country # <<>>) =>
          \/ SqlEq(LowerUdf(r.ad_country_cd), LowerUdf(country))
          \/ SqlEq(LowerUdf(r.country_value), LowerUdf(country))
    /\ (city # None /\ city # <<>>) => SqlEq(LowerUdf(r.ad_city), LowerUdf(city))

\* GROUP BY p.party_id, pn.name_text, p.party_type_cd, cm_list.code_value,
\*          s.match_field, s.match_value
GroupKey(r) ==
    [party_id |-> r.party_id, EntityName |-> r.EntityName, Type |-> r.Type,
     List |-> r.List, matchField |-> r.matchField, matchValue |-> r.matchValue]

\* the rows of one group in the order the nested loops visit them
SearchOrder(rows) ==
    LET S == {r.s_key : r \in rows}
        L == {r.list_cd : r \in rows}
        P == {r.program_cd : r \in rows}
        A == {r.ad_key : r \in rows}
        rank == [r \in rows |->
                   ((TextRank(S, r.s_key) * (Cardinality(L) + 1)
                     + TextRank(L, r.list_cd)) * (Cardinality(P) + 1)
                     + TextRank(P, r.program_cd)) * (Cardinality(A) + 1)
                   + TextRank(A, r.ad_key)]
    IN  SeqByRank(rows, rank)

\* one result row per group, with GROUP_CONCAT(cm_prog.code_value,'; ')
SearchGroups(rows) ==
    {LET grp == SearchOrder({r \in rows : GroupKey(r) = k})
     IN  [party_id |-> k.party_id, EntityName |-> k.EntityName, Type |-> k.Type,
          List |-> k.List,
          Program |-> GroupConcat([i \in 1..Len(grp) |-> grp[i].prog_value]),
          matchField |-> k.matchField, matchValue |-> k.matchValue]
        : k \in {GroupKey(r) : r \in rows}}

\* ORDER BY pn.name_text.  SQLite sorts the groups once, on the GROUP BY
\* columns with the ORDER BY column first, so rows with equal names come in
\* the order of the remaining GROUP BY columns.
HitBefore(g, h) ==
    IF g.EntityName # h.EntityName THEN TextLess(g.EntityName, h.EntityName)
    ELSE IF g.party_id # h.party_id THEN g.party_id < h.party_id
    ELSE IF g.Type # h.Type THEN TextLess(g.Type, h.Type)
    ELSE IF g.List # h.List THEN TextLess(g.List, h.List)
    ELSE IF g.matchField # h.matchField THEN TextLess(g.matchField, h.matchField)
    ELSE TextLess(g.matchValue, h.matchValue)

RECURSIVE OrderByName(_)
OrderByName(hits) ==
    IF hits = {} THEN <<>>
    ELSE LET h    == CHOOSE g \in hits : TRUE
             rest == OrderByName(hits \ {h})
             k    == Cardinality({i \in 1..Len(rest) : HitBefore(rest[i], h)})
         IN  SubSeq(rest, 1, k) \o <<h>> \o SubSeq(rest, k + 1, Len(rest))

\* LIMIT ?
SqlLimit(rows, n) == SubSeq(rows, 1, Min(n, Len(rows)))

\* kind "error": the {"error": ...} dict; "ValueError": raised; "hits": the list
search_party_advanced(d, exists, q, scope, country, city, limit, fuzzy) ==
    IF ~exists THEN [kind |-> "error"]
    ELSE IF Lower(scope) \notin ALLOWED_SCOPES THEN [kind |-> "ValueError"]
    ELSE LET pattern == <<"%">> \o q \o <<"%">>
             rows == {r \in SearchJoin(d) :
                        SearchWhere(r, pattern, Lower(scope), country, city)}
         IN  [kind |-> "hits",
              hits |-> SqlLimit(OrderByName(SearchGroups(rows)), ClampLimit(limit))]

(***************************************************************************)
(* GET /ofacParty/search (src/ofac_api.py 247-282)                         *)
(***************************************************************************)
RECURSIVE DigitsToNat(_)
DigitsToNat(s) ==
    IF s = <<>> THEN 0
    ELSE 10 * DigitsToNat(SubSeq(s, 1, Len(s) - 1)) + (CharCode(s[Len(s)]) - CharCode("0"))

\* int(text): optional blanks around an optional sign and decimal digits
IntText(s) ==
    LET t == Strip(s)
        u == IF t # <<>> /\ t[1] = "-" THEN Tail(t) ELSE t
    IN  [ok |-> IntParses(u),
         value |-> IF ~IntParses(u) THEN 0
                   ELSE IF t[1] = "-" THEN 0 - DigitsToNat(u) ELSE DigitsToNat(u)]

\* Python "x or y" on optional text
PyOr(x, y) == IF x # None /\ x # <<>> THEN x ELSE y

search_party(d, exists, a) ==
    LET q_param == PyOr(a.q, a.name)
        scope_param == Lower(PyOr(a.scope, S_all))
        lim == IF a.limit = None THEN [ok |-> TRUE, value |-> DefaultLimit]
               ELSE IntText(a.limit)
        fuzzy_param == a.fuzzy # None /\ Lower(a.fuzzy) = <<"t", "r", "u", "e">>
        result == search_party_advanced(d, exists, Strip(q_param), scope_param,
                                        a.country, a.city, lim.value, fuzzy_param)
    IN  IF q_param = None \/ q_param = <<>> \/ Len(Strip(q_param)) < 2
        THEN Envelope(400, FALSE, [message |-> "q or name of 2+ characters required"])
        ELSE IF ~lim.ok
        THEN Envelope(400, FALSE, [message |-> "limit must be an integer"])
        ELSE CASE result.kind = "ValueError" ->
                    Envelope(400, FALSE, [message |-> "scope must be one of the allowed"])
               [] result.kind = "error" ->
                    Envelope(500, FALSE, [message |-> "db file missing"])
               [] OTHER -> Envelope(200, TRUE, [data |-> result.hits])

\* (q, name) as given in the query string
QueryTexts ==
    {<<None, None>>, <<<<"a">>, None>>, <<<<"a", "b">>, None>>,
     <<<<" ", "A", "B", " ">>, <<"x", "y">>>>, <<None, <<"a", "b">>>>,
     <<<<"a", "_">>, None>>}
ScopeTexts == {None, S_all, S_name, <<"A", "L", "I", "A", "S">>, S_address,
               <<"b", "o", "g", "u", "s">>}
CountryTexts == {None, <<"u", "s">>}
CityTexts  == {None, <<"x">>}
LimitTexts == {None, <<"0">>, <<"2">>, <<"5", "0", "0", "0">>, <<"x">>}

SearchArgs ==
    {[q |-> qn[1], name |-> qn[2], scope |-> sc, country |-> co, city |-> ci,
      limit |-> li, fuzzy |-> None]
        : qn \in QueryTexts, sc \in ScopeTexts, co \in CountryTexts,
          ci \in CityTexts, li \in LimitTexts}

(***************************************************************************)
(* State machine of the REST layer: one request at a time is shown; the    *)
(* handlers share no state, so concurrent requests do not interact.        *)
(***************************************************************************)
NoReq == [op |-> "none"]

\* no file, no tables
NoTables ==
    [party |-> {}, name |-> {}, list_link |-> {}, program_link |-> {},
     attribute |-> {}, address |-> {}, code_master |-> {}]

Init ==
    /\ \/ dbExists = TRUE /\ db \in Datasets
       \/ dbExists = FALSE /\ db = NoTables
    /\ pc = "idle"
    /\ req = NoReq
    /\ resp = NoReq
    /\ calls = 0
    /\ envelope = NoReq
    /\ conn = "none"

OfacParty ==
    /\ pc = "idle"
    /\ \E param \in PartyIdParams :
       \E bare \in (IF param # None /\ IntParses(param)
                    THEN BareRows(db, PyInt(param)) ELSE {NULL}) :
        /\ req' = [op |-> "ofac_party", partyId |-> param]
        /\ resp' = ofac_party(db, dbExists, param, bare)
    /\ pc' = "responded"
    /\ UNCHANGED <<db, dbExists, calls, envelope, conn>>

SearchParty ==
    /\ pc = "idle"
    /\ \E a \in SearchArgs :
        /\ req' = [op |-> "search_party", args |-> a]
        /\ resp' = search_party(db, dbExists, a)
    /\ pc' = "responded"
    /\ UNCHANGED <<db, dbExists, calls, envelope, conn>>

\* the response has been sent; the next request can be shown
Done ==
    /\ pc = "responded"
    /\ pc' = "idle"
    /\ req' = NoReq
    /\ resp' = NoReq
    /\ UNCHANGED <<db, dbExists, calls, envelope, conn>>

Next == OfacParty \/ SearchParty \/ Done

Spec == Init /\ [][Next]_vars

(***************************************************************************)
(* Claims about the REST layer.                                            *)
(***************************************************************************)
PartyResponded  == pc = "responded" /\ req.op = "ofac_party"
SearchResponded == pc = "responded" /\ req.op = "search_party"

\* the hits of a successful search response
Hits == resp.payload.data

\* the display values of the program codes linked to party k
ProgramValues(k) ==
    {cm.code_value : cm \in {c \in db.code_master :
        \E pl \in db.program_link : pl.party_id = k /\ pl.program_cd = c.code_id}}

Perms(S) == {s \in [1..Cardinality(S) -> S] : \A i, j \in DOMAIN s : i # j => s[i] # s[j]}

\* text is the values of S, each once, separated by '; ' (NULL for none)
EachOnce(text, S) == text \in {GroupConcat(s) : s \in Perms(S)}

\* C1: GET /ofacParty answers 400 (resultCd false) for a missing or
\* non-digit partyId, 500 (resultCd false) for a numeric id with the database
\* file missing, 404 (resultCd false) for a numeric id of no record with the
\* database present, 200 (resultCd true) otherwise; resultCd is true iff
\* the status is 200.
C1_PartyOutcome ==
    PartyResponded =>
        LET p == req.partyId
            expected ==
                IF p = None \/ ~IsDigit(p) THEN 400
                ELSE IF ~dbExists THEN 500
                ELSE IF DetailsJoin(db, PyInt(p)) = {} THEN 404
                ELSE 200
        IN  /\ resp.body = "json"
            /\ resp.status = expected
            /\ resp.resultCd = (resp.status = 200)

\* the id of a request whose partyId is a decimal number that SQLite can hold
BoundId == IF PartyResponded /\ req.partyId # None /\ IntParses(req.partyId)
              /\ FitsSqliteInteger(PyInt(req.partyId))
           THEN PyInt(req.partyId) ELSE NULL

\* C2: with the database present, get_party_data returns None (answered 404)
\* if and only if the party has no canonical name row, whatever the other
\* tables hold.
C2_CanonicalNameSoleCheck ==
    (PartyResponded /\ dbExists /\ BoundId # NULL) =>
        ((resp.status = 404) <=>
            ~\E n \in db.name : PartyIdEq(n.party_id, BoundId) /\ IsCanonical(n))

\* C3: the Program field of a party with N program codes holds exactly those
\* N values, each once, separated by '; ' (so N-1 separators), in the detail
\* record and in every search hit, for any number of list links and
\* address rows.
C3_ProgramEachOnce ==
    /\ (PartyResponded /\ resp.status = 200) =>
          \A k \in {p.party_id : p \in db.party} :
              PartyIdEq(k, BoundId) =>
                  EachOnce(resp.payload.data.details.Program, ProgramValues(k))
    /\ (SearchResponded /\ resp.status = 200) =>
          \A i \in 1..Len(Hits) :
              EachOnce(Hits[i].Program, ProgramValues(Hits[i].party_id))

\* the scope a search request asks for, lower-cased
AskedScope == Lower(PyOr(req.args.scope, S_all))

\* C4: a search with scope name, alias or address returns only hits whose
\* matchField is that scope (lower-cased), for every combination of the
\* country, city and limit filters.
C4_ScopeFilter ==
    (SearchResponded /\ resp.status = 200 /\ AskedScope \in ALLOWED_SCOPES \ {S_all}) =>
        \A i \in 1..Len(Hits) : Hits[i].matchField = AskedScope

\* a search scoped to alias, with country, city and limit filters given, returns
\* an alias hit of a party that also has a canonical name and an address
\* containing the query
C4_Witness ==
    /\ SearchResponded
    /\ resp.status = 200
    /\ req.args.scope = <<"A", "L", "I", "A", "S">>
    /\ req.args.country # None /\ req.args.city # None /\ req.args.limit # None
    /\ Len(Hits) >= 1
    /\ \E r \in UnionSearch(db) :
          /\ r.party_id = Hits[1].party_id
          /\ r.match_field # S_alias
          /\ Contains(r.match_value, Strip(PyOr(req.args.q, req.args.name)))

\* C6: a REST search with a valid q and limit and a scope outside
\* {all, name, alias, address} is answered 4xx with resultCd false in every
\* storage state.
C6_InvalidScopeIs4xx ==
    (/\ SearchResponded
     /\ AskedScope \notin ALLOWED_SCOPES
     /\ Len(Strip(PyOr(PyOr(req.args.q, req.args.name), <<>>))) >= 2
     /\ (req.args.limit = None \/ IntText(PyOr(req.args.limit, <<>>)).ok)) =>
        /\ resp.status \in 400..499
        /\ resp.resultCd = FALSE

\* C7: a REST search given the query as name= (no q, no scope) runs with
\* scope=name: every hit has matchField 'name'.
C7_LegacyNameImpliesScopeName ==
    (/\ SearchResponded
     /\ resp.status = 200
     /\ req.args.q = None /\ req.args.name # None /\ req.args.scope = None) =>
        \A i \in 1..Len(Hits) : Hits[i].matchField = S_name

\* C8: search(q, scope=name) with no country or city filter and a limit not
\* below the number of matches returns exactly the parties whose canonical
\* name contains q case-insensitively, each once, ordered by canonical name.
C8_NameSearchExact ==
    LET q == Strip(PyOr(req.args.q, req.args.name))
        matching == {n.party_id : n \in {m \in db.name :
                        IsCanonical(m) /\ Contains(m.name_text, q)}}
        lim == IF req.args.limit = None THEN DefaultLimit
               ELSE IntText(req.args.limit).value
    IN  (/\ SearchResponded
         /\ resp.status = 200
         /\ AskedScope = S_name
         /\ req.args.country = None /\ req.args.city = None
         /\ ClampLimit(lim) >= Cardinality(matching)) =>
            /\ \A k \in matching :
                  Cardinality({i \in 1..Len(Hits) : Hits[i].party_id = k}) = 1
            /\ \A i \in 1..Len(Hits) : Hits[i].party_id \in matching
            /\ \A i, j \in 1..Len(Hits) :
                  i < j => ~TextLess(Hits[j].EntityName, Hits[i].EntityName)

\* C11: for a query q of two or more characters ('%' and '_' included),
\* every hit's matchValue contains q as a case-insensitive literal substring,
\* and every candidate text that contains q so satisfies the match predicate.
C11_LiteralSubstringMatch ==
    LET q == Strip(PyOr(req.args.q, req.args.name))
        pattern == <<"%">> \o q \o <<"%">>
    IN  (SearchResponded /\ resp.status = 200 /\ Len(q) >= 2) =>
            /\ \A i \in 1..Len(Hits) : Contains(Hits[i].matchValue, q)
            /\ \A s \in UnionSearch(db) :
                  Contains(s.match_value, q) =>
                      /\ LowerUdf(s.match_value) # NULL
                      /\ LikeMatch(LowerUdf(pattern), LowerUdf(s.match_value))

(***************************************************************************)
(* Tool layer (src/ofac_mcp_sse.py).  A tool invocation validates its      *)
(* arguments, awaits one HTTP GET and turns the outcome into an envelope.  *)
(* The server at BASE_URL is the REST layer above, or anything else that   *)
(* answers there; the transport may fail or time out.                      *)
(***************************************************************************)
\* an HTTP response as httpx sees it.  json: "object" | "array" | "invalid";
\* rcType: the JSON type of "resultCd" ("bool" | "number" | "absent")
HttpResponse(st, js, rct, rc, pl) ==
    [kind |-> "response", status |-> st, json |-> js, rcType |-> rct,
     resultCd |-> rc, payload |-> pl]

\* a response of the REST layer on the wire
OnWire(r) ==
    IF r.body = "json"
    THEN HttpResponse(r.status, "object", "bool", r.resultCd, r.payload)
    ELSE HttpResponse(r.status, "invalid", "absent", FALSE, [message |-> "html"])

ForeignStatuses == {200, 204, 302, 404, 500}

\* responses of a server that is not the REST layer
ForeignResponses ==
    {HttpResponse(st, "object", rct, rc, [data |-> <<>>, message |-> "upstream"])
        : st \in ForeignStatuses, rct \in {"bool", "number", "absent"}, rc \in BOOLEAN}
    \cup {HttpResponse(st, js, "absent", FALSE, [message |-> "none"])
            : st \in ForeignStatuses, js \in {"array", "invalid"}}

\* httpx.RequestError: connection failure, or the 10 s timeout
TransportErrors == {[kind |-> "RequestError", cause |-> c] : c \in {"connect", "timeout"}}

\* raise_for_status() left out
RaisesForStatus_Never(r) == FALSE

\* Response.raise_for_status(): HTTPStatusError unless the status is 2xx
RaisesForStatus(r) == r.status \notin 200..299

\* _extract_error_message(resp)
ExtractErrorMessage(r) ==
    IF r.json = "object" /\ "message" \in DOMAIN r.payload
    THEN r.payload.message ELSE "API Error"

ToolError(msg) == [status |-> "error", message |-> msg]
ToolSuccess(data) == [status |-> "success", data |-> data]

\* the try block of both tools, given what the awaited GET produced
ToolResult(o, dflt) ==
    IF o.kind = "RequestError" THEN ToolError(o.cause)            \* except RequestError
    ELSE IF RaisesForStatus(o) THEN ToolError(ExtractErrorMessage(o))  \* except HTTPStatusError
    ELSE IF o.json # "object" THEN ToolError("unexpected")        \* except Exception
    ELSE IF o.rcType = "bool" /\ o.resultCd
         THEN ToolSuccess(IF "data" \in DOMAIN o.payload THEN o.payload.data ELSE dflt)
    ELSE ToolError(IF "message" \in DOMAIN o.payload
                   THEN o.payload.message ELSE "API returned error")

\* limit = max(1, min(int(limit or 100), 1000)); limit is an int, and
\* "limit or 100" is 100 when limit is 0
ToolLimit(limit) ==
    LET given == IF limit = 0 THEN DefaultLimit ELSE limit
    IN  Max(LimitFloor, Min(given, LimitCeiling))

\* str(n) for a Python int
PyStr(n) == IF n < 0 THEN <<"-">> \o NatDigits(0 - n) ELSE NatDigits(n)

\* the query string search_party sends
ToolSearchParams(a) ==
    [q |-> Strip(PyOr(a.q, <<>>)),
     name |-> None,
     scope |-> Lower(PyOr(a.scope, S_all)),
     country |-> PyOr(a.country, None),
     city |-> PyOr(a.city, None),
     limit |-> PyStr(ToolLimit(a.limit)),
     fuzzy |-> IF a.fuzzy THEN <<"t", "r", "u", "e">> ELSE None]

ToolPartyIds == {1, 2, 3, 0 - 1}

ToolSearchArgs ==
    [q : {<<>>, <<"a">>, <<"a", "b">>},
     scope : {S_all, S_name, <<"A", "L", "I", "A", "S">>, <<"b", "o", "g", "u", "s">>},
     country : {None, <<"u", "s">>},
     city : {None},
     limit : {0 - 1, 0, 1, 2, DefaultLimit, 5000},
     fuzzy : BOOLEAN]

\* get_ofac_party_info up to its await: the GET is sent
GetOfacPartyInfoCall ==
    /\ pc = "idle"
    /\ \E party_id \in ToolPartyIds :
          req' = [op |-> "get_ofac_party_info", party_id |-> party_id,
                  params |-> [partyId |-> PyStr(party_id)]]
    /\ calls' = calls + 1
    /\ pc' = "calling"
    /\ UNCHANGED <<db, dbExists, resp, envelope, conn>>

\* search_party up to its await: the arguments are rejected (no GET) or
\* the GET is sent
ToolSearchPartyCall ==
    /\ pc = "idle"
    /\ \E a \in ToolSearchArgs :
        /\ req' = [op |-> "tool_search_party", args |-> a,
                   params |-> ToolSearchParams(a)]
        /\ IF Len(Strip(PyOr(a.q, <<>>))) < 2
           THEN /\ envelope' = ToolError("q must be at least 2 characters")
                /\ pc' = "returned"
                /\ calls' = calls
           ELSE IF Lower(PyOr(a.scope, S_all)) \notin ALLOWED_SCOPES
           THEN /\ envelope' = ToolError("scope must be one of the allowed")
                /\ pc' = "returned"
                /\ calls' = calls
           ELSE /\ envelope' = envelope
                /\ pc' = "calling"
                /\ calls' = calls + 1
    /\ UNCHANGED <<db, dbExists, resp, conn>>

\* what the REST layer answers to the GET of the pending invocation
RestAnswers ==
    IF req.op = "get_ofac_party_info"
    THEN {OnWire(ofac_party(db, dbExists, req.params.partyId, bare))
            : bare \in (IF IntParses(req.params.partyId)
                        THEN BareRows(db, PyInt(req.params.partyId)) ELSE {NULL})}
    ELSE {OnWire(search_party(db, dbExists, req.params))}

\* the await completes and the tool returns its envelope
ToolReturn ==
    /\ pc = "calling"
    /\ \E o \in RestAnswers \cup ForeignResponses \cup TransportErrors :
        /\ resp' = [o EXCEPT !.kind = IF o \in RestAnswers THEN "rest" ELSE o.kind]
        /\ envelope' = ToolResult(o, <<>>)
    /\ pc' = "returned"
    /\ UNCHANGED <<db, dbExists, req, calls, conn>>

\* the invocation is over
ToolDone ==
    /\ pc = "returned"
    /\ pc' = "idle"
    /\ req' = NoReq
    /\ resp' = NoReq
    /\ envelope' = NoReq
    /\ calls' = 0
    /\ UNCHANGED <<db, dbExists, conn>>

\* datasets under the tool layer: party 1 with every kind of row
ToolDatasets ==
    {Dataset(c1, TRUE, 1, MaxPrograms, MaxAddresses, <<"A", "B">>) : c1 \in BOOLEAN}

InitTool ==
    /\ \/ dbExists = TRUE /\ db \in ToolDatasets
       \/ dbExists = FALSE /\ db = NoTables
    /\ pc = "idle"
    /\ req = NoReq
    /\ resp = NoReq
    /\ calls = 0
    /\ envelope = NoReq
    /\ conn = "none"

NextTool == GetOfacPartyInfoCall \/ ToolSearchPartyCall \/ ToolReturn \/ ToolDone

SpecTool == InitTool /\ [][NextTool]_vars

(***************************************************************************)
(* Claims about the tool layer.                                            *)
(***************************************************************************)
ToolReturned == pc = "returned"

\* the invocation got an answer from the REST layer
AnsweredByRest == ToolReturned /\ calls = 1 /\ resp.kind = "rest"

\* C5: a search asked with an integer limit returns at most
\* max(1, min(limit, 1000)) hits, through the REST endpoint and through the
\* search_party tool alike (limit=0 gives at most 1 hit).
C5_LimitClamp ==
    /\ (SearchResponded /\ resp.status = 200 /\ req.args.limit # None) =>
          Len(Hits) <= Max(1, Min(IntText(PyOr(req.args.limit, <<>>)).value, 1000))
    /\ (AnsweredByRest /\ req.op = "tool_search_party"
            /\ envelope.status = "success") =>
          Len(envelope.data) <= Max(1, Min(req.args.limit, 1000))

Returned(what) == [op |-> "outcome", how |-> "return", what |-> what]
Raised(what)   == [op |-> "outcome", how |-> "raise", what |-> what]

\* party_id arguments: present, absent, above 2^63-1
ConnPartyIds ==
    {<<"1">>, <<"3">>,
     SubSeq(Int64MaxDigits, 1, Len(Int64MaxDigits) - 1) \o <<"8">>}

ConnScopes == {S_all, <<"A", "L", "I", "A", "S">>, <<"b", "o", "g", "u", "s">>}

\* the queries after the details query, in order; then what follows them
AfterQuery(at) ==
    CASE at = "ident" -> "alias"
      [] at = "alias" -> "addr"
      [] at = "addr"  -> "close"

\* get_party_data, lines 60-65: existence check, then sqlite3.connect
GetPartyDataEnter ==
    /\ pc = "idle"
    /\ \E party_id \in ConnPartyIds :
          req' = [op |-> "get_party_data", party_id |-> party_id]
    /\ IF ~dbExists
       THEN /\ resp' = Returned("error")
            /\ pc' = "left"
            /\ conn' = conn
       ELSE /\ resp' = resp
            /\ pc' = "details"
            /\ conn' = "open"
    /\ UNCHANGED <<db, dbExists, calls, envelope>>

\* lines 86-89: the details query; an empty frame closes and returns None
GetPartyDataDetails ==
    /\ pc = "details"
    /\ req.op = "get_party_data"
    /\ \E fails \in BOOLEAN :
        IF fails \/ ~FitsSqliteInteger(req.party_id)
        THEN /\ resp' = Raised("query error")
             /\ pc' = "left"
             /\ conn' = conn
        ELSE IF DetailsJoin(db, req.party_id) = {}
        THEN /\ conn' = "closed"
             /\ resp' = Returned("None")
             /\ pc' = "left"
        ELSE /\ resp' = resp
             /\ pc' = "ident"
             /\ conn' = conn
    /\ UNCHANGED <<db, dbExists, req, calls, envelope>>

\* lines 91-113: the identifications, aliases and addresses queries
GetPartyDataQuery ==
    /\ pc \in {"ident", "alias", "addr"}
    /\ req.op = "get_party_data"
    /\ \E fails \in BOOLEAN :
        IF fails
        THEN /\ resp' = Raised("query error")
             /\ pc' = "left"
        ELSE /\ resp' = resp
             /\ pc' = AfterQuery(pc)
    /\ UNCHANGED <<db, dbExists, req, calls, envelope, conn>>

\* lines 115-121: conn.close() and the return of the dict
GetPartyDataClose ==
    /\ pc = "close"
    /\ req.op = "get_party_data"
    /\ conn' = "closed"
    /\ resp' = Returned("dict")
    /\ pc' = "left"
    /\ UNCHANGED <<db, dbExists, req, calls, envelope>>

\* search_party_advanced, lines 139-152: existence check, scope check,
\* then sqlite3.connect
SearchAdvancedEnter ==
    /\ pc = "idle"
    /\ \E scope \in ConnScopes :
        /\ req' = [op |-> "search_party_advanced", scope |-> scope]
        /\ IF ~dbExists
           THEN /\ resp' = Returned("error")
                /\ pc' = "left"
                /\ conn' = conn
           ELSE IF Lower(scope) \notin ALLOWED_SCOPES
           THEN /\ resp' = Raised("ValueError")
                /\ pc' = "left"
                /\ conn' = conn
           ELSE /\ resp' = resp
                /\ pc' = "search"
                /\ conn' = "open"
    /\ UNCHANGED <<db, dbExists, calls, envelope>>

\* line 219: the search query
SearchAdvancedQuery ==
    /\ pc = "search"
    /\ \E fails \in BOOLEAN :
        IF fails
        THEN /\ resp' = Raised("query error")
             /\ pc' = "left"
        ELSE /\ resp' = resp
             /\ pc' = "close"
    /\ UNCHANGED <<db, dbExists, req, calls, envelope, conn>>

\* lines 220-223: conn.close() and the return of the list
SearchAdvancedClose ==
    /\ pc = "close"
    /\ req.op = "search_party_advanced"
    /\ conn' = "closed"
    /\ resp' = Returned("list")
    /\ pc' = "left"
    /\ UNCHANGED <<db, dbExists, req, calls, envelope>>

\* main.get_party, lines 60-63: existence check, then sqlite3.connect
MainGetPartyEnter ==
    /\ pc = "idle"
    /\ \E party_id \in ConnPartyIds :
          req' = [op |-> "get_party", party_id |-> party_id]
    /\ IF ~dbExists
       THEN /\ resp' = Raised("HTTPException 404")
            /\ pc' = "left"
            /\ conn' = conn
       ELSE /\ resp' = resp
            /\ pc' = "details"
            /\ conn' = "open"
    /\ UNCHANGED <<db, dbExists, calls, envelope>>

\* lines 90-92, inside try: the details query; an empty frame raises 404
MainGetPartyDetails ==
    /\ pc = "details"
    /\ req.op = "get_party"
    /\ \E fails \in BOOLEAN :
        IF fails \/ ~FitsSqliteInteger(req.party_id)
        THEN /\ resp' = Raised("query error")
             /\ pc' = "finally"
        ELSE IF DetailsJoin(db, req.party_id) = {}
        THEN /\ resp' = Raised("HTTPException 404")
             /\ pc' = "finally"
        ELSE /\ resp' = resp
             /\ pc' = "ident"
    /\ UNCHANGED <<db, dbExists, req, calls, envelope, conn>>

\* lines 104-138, inside try: the other three queries, then the return value
MainGetPartyQuery ==
    /\ pc \in {"ident", "alias", "addr"}
    /\ req.op = "get_party"
    /\ \E fails \in BOOLEAN :
        IF fails
        THEN /\ resp' = Raised("query error")
             /\ pc' = "finally"
        ELSE IF pc = "addr"
        THEN /\ resp' = Returned("PartyResponse")
             /\ pc' = "finally"
        ELSE /\ resp' = resp
             /\ pc' = AfterQuery(pc)
    /\ UNCHANGED <<db, dbExists, req, calls, envelope, conn>>

\* lines 140-141: finally: conn.close(), on the way out of the try block
MainGetPartyFinally ==
    /\ pc = "finally"
    /\ conn' = "closed"
    /\ pc' = "left"
    /\ UNCHANGED <<db, dbExists, req, resp, calls, envelope>>

\* control has left the function; the next call can be shown
Leave ==
    /\ pc = "left"
    /\ pc' = "idle"
    /\ req' = NoReq
    /\ resp' = NoReq
    /\ conn' = "none"
    /\ UNCHANGED <<db, dbExists, calls, envelope>>

\* datasets under the calls: party 1 found or not by the details query
ConnDatasets ==
    {Dataset(c1, a1, nl, 1, 1, <<"A", "B">>) :
        c1 \in BOOLEAN, a1 \in BOOLEAN, nl \in 0..MaxListLinks}

InitConn ==
    /\ \/ dbExists = TRUE /\ db \in ConnDatasets
       \/ dbExists = FALSE /\ db = NoTables
    /\ pc = "idle"
    /\ req = NoReq
    /\ resp = NoReq
    /\ calls = 0
    /\ envelope = NoReq
    /\ conn = "none"

NextConn ==
    \/ GetPartyDataEnter \/ GetPartyDataDetails \/ GetPartyDataQuery
    \/ GetPartyDataClose
    \/ SearchAdvancedEnter \/ SearchAdvancedQuery \/ SearchAdvancedClose
    \/ MainGetPartyEnter \/ MainGetPartyDetails \/ MainGetPartyQuery
    \/ MainGetPartyFinally
    \/ Leave

SpecConn == InitConn /\ [][NextConn]_vars

(***************************************************************************)
(* Claims about the connection.                                            *)
(***************************************************************************)
\* C12: a call of get_party_data, search_party_advanced or main.get_party
\* that opened a connection has closed it when control leaves the function,
\* whether it returns, reports not-found or a query raised: no call ends
\* with an open connection.
C12_ConnectionClosedOnExit == pc = "left" => conn # "open"
====
